---- MODULE Spec2Model ----
(***************************************************************************)
(* Model of the amortization engine of App.py: calculate_mortgage,         *)
(* generate_yearly_schedule and generate_monthly_schedule.                 *)
(*                                                                         *)
(* Numbers.  Money is an integer number of currency units.  Rates and     *)
(* growth factors (floats in the source) are fixed-point numbers scaled    *)
(* by Scale; every division rounds to nearest, as float division does at   *)
(* its own precision.  Percentages are integers.                           *)
(* Optional arguments (override_rate, override_term) and the optional      *)
(* result of calculate_mortgage are sequences: << >> is None, <<v>> is v.  *)
(* A DataFrame is the sequence of its rows; pd.DataFrame() is << >>.       *)
(***************************************************************************)
EXTENDS Integers, Sequences, FiniteSets, TLC

\* ------------------------------------------------------------------ bounds
Scale == 10000
MaxTerm == 4

\* ------------------------------------------------------------------ inputs
None == << >>
Some(v) == << v >>

HomeValues == {72000}
DownPayments == {0, 72000, 144000}
InterestRates == {0, 60}
TermYears == (-1)..MaxTerm
OverrideRates == {None, Some(0), Some(36)}
OverrideTerms == {None, Some(0), Some(2)}
PropertyTaxes == {0, 1200}
PmiRates == {0, 12}
HomeInsurances == {600}
HoaFees == {25}

MkDate(y, m, d) == [year |-> y, month |-> m, day |-> d]
StartDates == {MkDate(2024, 2, 29), MkDate(2024, 1, 31),
               MkDate(2023, 11, 15), MkDate(2023, 3, 29)}

\* inp            the arguments every call of this run is made with
\* pc             the statement the run is at
\* returned       the functions that have returned to the caller
\* results        what calculate_mortgage returned
\* yearly         what generate_yearly_schedule returned
\* monthly        what generate_monthly_schedule returned
\* st_errors      the functions whose except branch called st.error
\* resolved       per function, the rate, term and payment it resolved
\* balance, schedule_data, period, current_date
\*                locals of the schedule generator that is running
VARIABLES inp, pc, returned, results, yearly, monthly, st_errors, resolved,
          balance, schedule_data, period, current_date
vars == <<inp, pc, returned, results, yearly, monthly, st_errors, resolved,
          balance, schedule_data, period, current_date>>

\* ------------------------------------------------------ float arithmetic
\* a / b rounded to nearest; b # 0 (the callers raise ZeroDivisionError first)
RDiv(a, b) ==
    IF b > 0 THEN (a + (b \div 2)) \div b
             ELSE ((0 - a) + ((0 - b) \div 2)) \div (0 - b)

\* product of two scaled numbers
Mul(a, b) == RDiv(a * b, Scale)

\* base ** n for a scaled base and an integer exponent n (n may be negative)
RECURSIVE PowPos(_, _)
PowPos(base, n) ==
    IF n = 0 THEN Scale
    ELSE IF n % 2 = 0
         THEN LET h == PowPos(base, n \div 2) IN Mul(h, h)
         ELSE Mul(PowPos(base, n - 1), base)

Pow(base, n) == IF n >= 0 THEN PowPos(base, n)
                          ELSE RDiv(Scale * Scale, PowPos(base, 0 - n))

\* float(percent) / 100
PercentToDecimal(pct) == RDiv(pct * Scale, 100)

\* ------------------------------------------------------------ datetime.date
IsLeap(y) == (y % 4 = 0) /\ ((y % 100 # 0) \/ (y % 400 = 0))

DaysInMonth(y, m) ==
    IF m = 2 THEN (IF IsLeap(y) THEN 29 ELSE 28)
    ELSE IF m \in {4, 6, 9, 11} THEN 30 ELSE 31

\* date.replace(year=y, month=m, day=d) raises ValueError unless this holds
ValidDate(y, m, d) == m \in 1..12 /\ d >= 1 /\ d <= DaysInMonth(y, m)

\* strftime("%b %Y"): the month and the year
MonthLabel(d) == <<d.month, d.year>>

\* -------------------------------------------------------- calculate_mortgage
\* Python truth value of an optional number: None and 0 are false
Truthy(x) == x # None /\ x[1] # 0

cm_loan_term_years(a) ==
    IF Truthy(a.override_term) /\ a.override_term[1] > 0
    THEN a.override_term[1]
    ELSE a.loan_term_years

cm_interest_rate_decimal(a) ==
    IF a.override_rate # None /\ a.override_rate[1] > 0
    THEN PercentToDecimal(a.override_rate[1])
    ELSE PercentToDecimal(a.interest_rate)

\* monthly_payment_principal_interest, or None when the division raises
\* ZeroDivisionError
cm_monthly_payment(a) ==
    LET loan_term_months == cm_loan_term_years(a) * 12
        loan_amount == a.home_value - a.down_payment
        monthly_interest_rate == RDiv(cm_interest_rate_decimal(a), 12)
        growth == Pow(Scale + monthly_interest_rate, loan_term_months)
    IN  IF monthly_interest_rate > 0
        THEN IF growth - Scale = 0
             THEN None
             ELSE Some(RDiv(loan_amount * Mul(monthly_interest_rate, growth),
                            growth - Scale))
        ELSE IF loan_term_months = 0
             THEN None
             ELSE Some(RDiv(loan_amount, loan_term_months))

\* loan_payoff_date, or None when start_date.replace(year=...) raises
\* ValueError
cm_loan_payoff_date(a) ==
    LET sd == a.start_date
        y == sd.year + cm_loan_term_years(a)
    IN  IF ~ValidDate(y, sd.month, sd.day)
        THEN None
        ELSE IF sd.month = 2 /\ sd.day = 29
             THEN IF ValidDate(y, sd.month, 28)
                  THEN Some(MkDate(y, sd.month, 28))
                  ELSE Some(MkDate(y, sd.month, sd.day))
             ELSE Some(MkDate(y, sd.month, sd.day))

\* the whole function: Some(results) or None (the except branch)
calculate_mortgage(a) ==
    LET loan_term_months == cm_loan_term_years(a) * 12
        loan_amount == a.home_value - a.down_payment
        pay == cm_monthly_payment(a)
        payoff == cm_loan_payoff_date(a)
        pmi_monthly ==
            IF loan_amount > 0
            THEN RDiv(loan_amount * PercentToDecimal(a.pmi_rate), Scale * 12)
            ELSE 0
        property_tax_monthly ==
            IF a.property_tax > 0 THEN RDiv(a.property_tax, 12) ELSE 0
        home_insurance_monthly ==
            IF a.home_insurance > 0 THEN RDiv(a.home_insurance, 12) ELSE 0
        total_monthly_payment ==
            pay[1] + property_tax_monthly + pmi_monthly
                   + home_insurance_monthly + a.hoa_fee
    IN  IF pay = None \/ payoff = None
        THEN None
        ELSE Some([LoanAmount |-> loan_amount,
                   MonthlyPaymentPI |-> pay[1],
                   TotalMonthlyPayment |-> total_monthly_payment,
                   TotalInterestPaid |-> pay[1] * loan_term_months - loan_amount,
                   LoanPayoffDate |-> MonthLabel(payoff[1]),
                   AnnualPaymentAmount |-> total_monthly_payment * 12,
                   TotalPayments |-> total_monthly_payment * loan_term_months,
                   PropertyTaxPerMonth |-> property_tax_monthly,
                   PMIPerMonth |-> pmi_monthly,
                   HomeInsurancePerMonth |-> home_insurance_monthly,
                   HOAFeePerMonth |-> a.hoa_fee])

\* -------------------------------------------------- generate_yearly_schedule
\* variant: an override of 0 also replaces the base rate
ys_annual_interest_rate_zero_overrides(a) ==
    IF a.override_rate # None /\ a.override_rate[1] >= 0
    THEN PercentToDecimal(a.override_rate[1])
    ELSE PercentToDecimal(a.interest_rate)

ys_annual_interest_rate(a) ==
    IF a.override_rate # None /\ a.override_rate[1] > 0
    THEN PercentToDecimal(a.override_rate[1])
    ELSE PercentToDecimal(a.interest_rate)

ys_loan_term_years(a) ==
    IF Truthy(a.override_term) /\ a.override_term[1] > 0
    THEN a.override_term[1]
    ELSE a.loan_term_years

\* monthly_payment_pi, or None when the division raises ZeroDivisionError
ys_monthly_payment_pi(a) ==
    LET loan_amount == a.home_value - a.down_payment
        monthly_rate == RDiv(ys_annual_interest_rate(a), 12)
        loan_term_months == ys_loan_term_years(a) * 12
        growth == Pow(Scale + monthly_rate, loan_term_months)
    IN  IF monthly_rate > 0
        THEN IF growth - Scale = 0
             THEN None
             ELSE Some(RDiv(loan_amount * Mul(monthly_rate, growth),
                            growth - Scale))
        ELSE IF loan_term_months = 0
             THEN None
             ELSE Some(RDiv(loan_amount, loan_term_months))

\* variant: the final payment is not reduced by the overshoot
RECURSIVE ys_months_unadjusted(_, _, _, _, _, _)
ys_months_unadjusted(month, bal, yearly_interest, yearly_principal, monthly_rate, payment) ==
    IF month = 12 \/ bal <= 0
    THEN [balance |-> bal, yearly_interest |-> yearly_interest,
          yearly_principal |-> yearly_principal]
    ELSE LET interest_payment == RDiv(bal * monthly_rate, Scale)
             principal_payment == payment - interest_payment
             after == bal - principal_payment
         IN  ys_months_unadjusted(month + 1, IF after < 0 THEN 0 ELSE after,
                                  yearly_interest + interest_payment,
                                  yearly_principal + principal_payment,
                                  monthly_rate, payment)

\* the inner loop "for month in range(12)" of one year, from month on
RECURSIVE ys_months(_, _, _, _, _, _)
ys_months(month, bal, yearly_interest, yearly_principal, monthly_rate, payment) ==
    IF month = 12 \/ bal <= 0
    THEN [balance |-> bal, yearly_interest |-> yearly_interest,
          yearly_principal |-> yearly_principal]
    ELSE LET interest_payment == RDiv(bal * monthly_rate, Scale)
             principal_payment == payment - interest_payment
             after == bal - principal_payment
         IN  IF after < 0
             THEN ys_months(month + 1, 0, yearly_interest + interest_payment,
                            yearly_principal + (principal_payment + after),
                            monthly_rate, payment)
             ELSE ys_months(month + 1, after, yearly_interest + interest_payment,
                            yearly_principal + principal_payment,
                            monthly_rate, payment)

\* the row of a year; "Date" is start_date.replace(year=...).strftime("%Y")
ys_row(sd, year, principal, interest, ending) ==
    [Year |-> year, Date |-> sd.year + year - 1, Principal |-> principal,
     Interest |-> interest, EndingBalance |-> ending]

\* the rows "for remaining_year in range(year + 1, loan_term_years + 1)"
ys_zero_rows(sd, year, term) ==
    [i \in 1..(IF term > year THEN term - year ELSE 0) |->
        ys_row(sd, year + i, 0, 0, 0)]

\* start_date.replace(year=...) succeeds for the row of this year
ys_label_ok(sd, year) == ValidDate(sd.year + year - 1, sd.month, sd.day)

\* variant: the except branch hands back the rows built so far
ys_except_partial(rows) == rows

\* what the except branch of generate_yearly_schedule returns
ys_except(rows) == << >>

\* ------------------------------------------------- generate_monthly_schedule
ms_annual_interest_rate(a) ==
    IF a.override_rate # None /\ a.override_rate[1] > 0
    THEN PercentToDecimal(a.override_rate[1])
    ELSE PercentToDecimal(a.interest_rate)

ms_loan_term_years(a) ==
    IF Truthy(a.override_term) /\ a.override_term[1] > 0
    THEN a.override_term[1]
    ELSE a.loan_term_years

\* monthly_payment_pi, or None when the division raises ZeroDivisionError
ms_monthly_payment_pi(a) ==
    LET loan_amount == a.home_value - a.down_payment
        monthly_rate == RDiv(ms_annual_interest_rate(a), 12)
        loan_term_months == ms_loan_term_years(a) * 12
        growth == Pow(Scale + monthly_rate, loan_term_months)
    IN  IF monthly_rate > 0
        THEN IF growth - Scale = 0
             THEN None
             ELSE Some(RDiv(loan_amount * Mul(monthly_rate, growth),
                            growth - Scale))
        ELSE IF loan_term_months = 0
             THEN None
             ELSE Some(RDiv(loan_amount, loan_term_months))

Min(x, y) == IF x < y THEN x ELSE y
Max(x, y) == IF x > y THEN x ELSE y

\* the month indices of the list months_to_show
months_to_show(total_months) ==
    (1..(Min(13, total_months + 1) - 1))
        \cup (IF total_months > 12
              THEN Max(total_months - 11, 13)..total_months
              ELSE {})

\* "Move to next month": the new current_date, or None when replace raises
ms_next_date(d) ==
    IF d.month = 12
    THEN IF ValidDate(d.year + 1, 1, d.day)
         THEN Some(MkDate(d.year + 1, 1, d.day)) ELSE None
    ELSE IF ValidDate(d.year, d.month + 1, d.day)
         THEN Some(MkDate(d.year, d.month + 1, d.day)) ELSE None

\* what the except branch of generate_monthly_schedule returns
ms_except(rows) == << >>

\* ---------------------------------------------------------- state machine
\* A run calls the three public functions in turn with the same arguments:
\* calculate_mortgage, generate_yearly_schedule, generate_monthly_schedule.
Inputs ==
    [home_value : HomeValues, down_payment : DownPayments,
     interest_rate : InterestRates, loan_term_years : TermYears,
     start_date : StartDates, property_tax : PropertyTaxes,
     pmi_rate : PmiRates, home_insurance : HomeInsurances,
     hoa_fee : HoaFees, override_rate : OverrideRates,
     override_term : OverrideTerms]

Functions == {"calculate_mortgage", "generate_yearly_schedule",
              "generate_monthly_schedule"}

Init ==
    /\ inp \in Inputs
    /\ pc = "calculate_mortgage"
    /\ returned = {}
    /\ results = None
    /\ yearly = << >>
    /\ monthly = << >>
    /\ st_errors = {}
    /\ resolved = [f \in Functions |-> None]
    /\ balance = 0
    /\ schedule_data = << >>
    /\ period = 0
    /\ current_date = inp.start_date

CalculateMortgage ==
    /\ pc = "calculate_mortgage"
    /\ results' = calculate_mortgage(inp)
    /\ st_errors' = IF results' = None
                    THEN st_errors \cup {"calculate_mortgage"}
                    ELSE st_errors
    /\ resolved' = [resolved EXCEPT !["calculate_mortgage"] =
                       Some([rate |-> cm_interest_rate_decimal(inp),
                             term |-> cm_loan_term_years(inp),
                             payment |-> cm_monthly_payment(inp)])]
    /\ returned' = returned \cup {"calculate_mortgage"}
    /\ pc' = "yearly_begin"
    /\ UNCHANGED <<inp, yearly, monthly, balance, schedule_data, period,
                   current_date>>

\* generate_yearly_schedule up to the loop
YearlyBegin ==
    /\ pc = "yearly_begin"
    /\ LET res == calculate_mortgage(inp)
           pay == ys_monthly_payment_pi(inp)
           loc == [rate |-> ys_annual_interest_rate(inp),
                   term |-> ys_loan_term_years(inp),
                   payment |-> pay]
       IN  IF res = None
           THEN /\ st_errors' = st_errors \cup {"calculate_mortgage"}
                /\ yearly' = << >>
                /\ returned' = returned \cup {"generate_yearly_schedule"}
                /\ pc' = "monthly_begin"
                /\ UNCHANGED <<resolved, balance, schedule_data, period>>
           ELSE IF pay = None
           THEN /\ st_errors' = st_errors \cup {"generate_yearly_schedule"}
                /\ yearly' = ys_except(<< >>)
                /\ returned' = returned \cup {"generate_yearly_schedule"}
                /\ pc' = "monthly_begin"
                /\ resolved' = [resolved EXCEPT
                                   !["generate_yearly_schedule"] = Some(loc)]
                /\ UNCHANGED <<balance, schedule_data, period>>
           ELSE /\ resolved' = [resolved EXCEPT
                                   !["generate_yearly_schedule"] = Some(loc)]
                /\ balance' = inp.home_value - inp.down_payment
                /\ schedule_data' = << >>
                /\ period' = 1
                /\ pc' = IF loc.term >= 1 THEN "yearly_loop"
                                          ELSE "yearly_return"
                /\ UNCHANGED <<st_errors, yearly, returned>>
    /\ UNCHANGED <<inp, results, monthly, current_date>>

\* one iteration of "for year in range(1, loan_term_years + 1)"
YearlyLoop ==
    /\ pc = "yearly_loop"
    /\ LET loc == resolved["generate_yearly_schedule"][1]
           sd == inp.start_date
           m == ys_months(0, balance, 0, 0, RDiv(loc.rate, 12), loc.payment[1])
           row == ys_row(sd, period, m.yearly_principal, m.yearly_interest,
                         m.balance)
           good == {y \in (period + 1)..loc.term :
                       \A z \in (period + 1)..y : ys_label_ok(sd, z)}
           filled == Append(schedule_data, row)
                         \o ys_zero_rows(sd, period, period + Cardinality(good))
           raises == \/ ~ys_label_ok(sd, period)
                     \/ /\ m.balance <= 0
                        /\ \E y \in (period + 1)..loc.term : ~ys_label_ok(sd, y)
       IN  /\ balance' = m.balance
           /\ schedule_data' = IF ~ys_label_ok(sd, period) THEN schedule_data
                               ELSE IF m.balance <= 0 THEN filled
                               ELSE Append(schedule_data, row)
           /\ IF raises
              THEN /\ st_errors' = st_errors \cup {"generate_yearly_schedule"}
                   /\ yearly' = ys_except(schedule_data')
                   /\ returned' = returned \cup {"generate_yearly_schedule"}
                   /\ pc' = "monthly_begin"
                   /\ UNCHANGED period
              ELSE /\ period' = period + 1
                   /\ pc' = IF m.balance <= 0 \/ period + 1 > loc.term
                            THEN "yearly_return" ELSE "yearly_loop"
                   /\ UNCHANGED <<st_errors, yearly, returned>>
    /\ UNCHANGED <<inp, results, monthly, resolved, current_date>>

\* "df_schedule = pd.DataFrame(schedule_data); return df_schedule"
YearlyReturn ==
    /\ pc = "yearly_return"
    /\ yearly' = schedule_data
    /\ returned' = returned \cup {"generate_yearly_schedule"}
    /\ pc' = "monthly_begin"
    /\ UNCHANGED <<inp, results, monthly, st_errors, resolved, balance,
                   schedule_data, period, current_date>>

\* generate_monthly_schedule up to the loop
MonthlyBegin ==
    /\ pc = "monthly_begin"
    /\ LET res == calculate_mortgage(inp)
           pay == ms_monthly_payment_pi(inp)
           loc == [rate |-> ms_annual_interest_rate(inp),
                   term |-> ms_loan_term_years(inp),
                   payment |-> pay]
       IN  IF res = None
           THEN /\ st_errors' = st_errors \cup {"calculate_mortgage"}
                /\ monthly' = << >>
                /\ returned' = returned \cup {"generate_monthly_schedule"}
                /\ pc' = "done"
                /\ UNCHANGED <<resolved, balance, schedule_data, period,
                               current_date>>
           ELSE IF pay = None
           THEN /\ st_errors' = st_errors \cup {"generate_monthly_schedule"}
                /\ monthly' = ms_except(<< >>)
                /\ returned' = returned \cup {"generate_monthly_schedule"}
                /\ pc' = "done"
                /\ resolved' = [resolved EXCEPT
                                   !["generate_monthly_schedule"] = Some(loc)]
                /\ UNCHANGED <<balance, schedule_data, period, current_date>>
           ELSE /\ resolved' = [resolved EXCEPT
                                   !["generate_monthly_schedule"] = Some(loc)]
                /\ balance' = inp.home_value - inp.down_payment
                /\ schedule_data' = << >>
                /\ current_date' = inp.start_date
                /\ period' = 1
                /\ pc' = IF loc.term * 12 >= 1 THEN "monthly_loop"
                                               ELSE "monthly_return"
                /\ UNCHANGED <<st_errors, monthly, returned>>
    /\ UNCHANGED <<inp, results, yearly>>

\* variant: a skipped month leaves the running balance as it is
MonthlySkip_balance_kept ==
    /\ pc = "monthly_loop"
    /\ LET loc == resolved["generate_monthly_schedule"][1]
           total_months == loc.term * 12
       IN  /\ period \notin months_to_show(total_months)
           /\ period' = period + 1
           /\ pc' = IF period + 1 > total_months
                    THEN "monthly_return" ELSE "monthly_loop"
    /\ UNCHANGED <<inp, results, yearly, monthly, returned, st_errors,
                   resolved, balance, schedule_data, current_date>>

\* one iteration of "for month in range(1, total_months + 1)" for a month
\* that is not in months_to_show
MonthlySkip ==
    /\ pc = "monthly_loop"
    /\ LET loc == resolved["generate_monthly_schedule"][1]
           total_months == loc.term * 12
           interest_payment == RDiv(balance * RDiv(loc.rate, 12), Scale)
           principal_payment == loc.payment[1] - interest_payment
       IN  /\ period \notin months_to_show(total_months)
           /\ balance' = IF balance - principal_payment < 0
                         THEN 0 ELSE balance - principal_payment
           /\ period' = period + 1
           /\ pc' = IF period + 1 > total_months
                    THEN "monthly_return" ELSE "monthly_loop"
    /\ UNCHANGED <<inp, results, yearly, monthly, returned, st_errors,
                   resolved, schedule_data, current_date>>

\* one iteration of the same loop for a month in months_to_show
MonthlyShow ==
    /\ pc = "monthly_loop"
    /\ LET loc == resolved["generate_monthly_schedule"][1]
           total_months == loc.term * 12
           interest_payment == RDiv(balance * RDiv(loc.rate, 12), Scale)
           principal_payment == loc.payment[1] - interest_payment
           ending_balance == balance - principal_payment
           row == [Month |-> period,
                   Date |-> MonthLabel(current_date),
                   Principal |-> IF ending_balance < 0
                                 THEN principal_payment + ending_balance
                                 ELSE principal_payment,
                   Interest |-> interest_payment,
                   EndingBalance |-> IF ending_balance < 0 THEN 0
                                     ELSE ending_balance]
           next_date == ms_next_date(current_date)
       IN  /\ period \in months_to_show(total_months)
           /\ schedule_data' = Append(schedule_data, row)
           /\ balance' = row.EndingBalance
           /\ IF next_date = None
              THEN /\ st_errors' = st_errors \cup {"generate_monthly_schedule"}
                   /\ monthly' = ms_except(schedule_data')
                   /\ returned' = returned \cup {"generate_monthly_schedule"}
                   /\ pc' = "done"
                   /\ UNCHANGED <<current_date, period>>
              ELSE /\ current_date' = next_date[1]
                   /\ period' = period + 1
                   /\ pc' = IF row.EndingBalance <= 0 \/ period + 1 > total_months
                            THEN "monthly_return" ELSE "monthly_loop"
                   /\ UNCHANGED <<st_errors, monthly, returned>>
    /\ UNCHANGED <<inp, results, yearly, resolved>>

\* "df_schedule = pd.DataFrame(schedule_data); return df_schedule"
MonthlyReturn ==
    /\ pc = "monthly_return"
    /\ monthly' = schedule_data
    /\ returned' = returned \cup {"generate_monthly_schedule"}
    /\ pc' = "done"
    /\ UNCHANGED <<inp, results, yearly, st_errors, resolved, balance,
                   schedule_data, period, current_date>>

Next ==
    \/ CalculateMortgage
    \/ YearlyBegin
    \/ YearlyLoop
    \/ YearlyReturn
    \/ MonthlyBegin
    \/ MonthlySkip
    \/ MonthlyShow
    \/ MonthlyReturn

Spec == Init /\ [][Next]_vars

\* ------------------------------------------------------------- properties
\* The specification's own reading of the inputs.
EffectiveRatePercent(a) ==
    IF a.override_rate = None THEN a.interest_rate
    ELSE IF a.override_rate[1] > 0 THEN a.override_rate[1]
    ELSE a.interest_rate

EffectiveTerm(a) ==
    IF a.override_term = None THEN a.loan_term_years
    ELSE IF a.override_term[1] > 0 THEN a.override_term[1]
    ELSE a.loan_term_years

LoanAmount(a) == a.home_value - a.down_payment

ValidLoanInput(a) ==
    /\ a.home_value >= 0 /\ a.down_payment >= 0
    /\ a.interest_rate >= 0 /\ a.loan_term_years >= 1
    /\ a.property_tax >= 0 /\ a.pmi_rate >= 0
    /\ a.home_insurance >= 0 /\ a.hoa_fee >= 0

\* the "%b %Y" label of the date k calendar months after d
LabelAfterMonths(d, k) ==
    LET idx == d.year * 12 + (d.month - 1) + k
    IN  <<(idx % 12) + 1, idx \div 12>>

RECURSIVE SumPrincipal(_, _)
SumPrincipal(rows, k) ==
    IF k = 0 THEN 0 ELSE rows[k].Principal + SumPrincipal(rows, k - 1)

NonNegativeNonIncreasing(rows) ==
    \A i \in 1..Len(rows) :
        /\ rows[i].EndingBalance >= 0
        /\ (i > 1 => rows[i].EndingBalance <= rows[i - 1].EndingBalance)

\* C1: calculate_mortgage with a start date of Feb 29 of a leap year and an
\* effective term N >= 1 returns a summary whose payoff date is February of
\* year start + N (Feb 29 clamped to Feb 28 when that year is not a leap year).
C1_LeapDayPayoff ==
    ( /\ "calculate_mortgage" \in returned
      /\ inp.start_date.month = 2 /\ inp.start_date.day = 29
      /\ IsLeap(inp.start_date.year)
      /\ EffectiveTerm(inp) >= 1 )
    => /\ results # None
       /\ results[1].LoanPayoffDate
              = <<2, inp.start_date.year + EffectiveTerm(inp)>>

\* C2: for every valid input with effective term N >= 1 the yearly schedule
\* that generate_yearly_schedule returns has exactly N rows, with Year
\* 1, 2, ..., N in order.
C2_YearlyRowCount ==
    ( /\ "generate_yearly_schedule" \in returned
      /\ ValidLoanInput(inp)
      /\ EffectiveTerm(inp) >= 1 )
    => /\ Len(yearly) = EffectiveTerm(inp)
       /\ \A i \in 1..Len(yearly) : yearly[i].Year = i

\* C3: in every returned schedule, yearly or monthly, every Ending Balance is
\* >= 0 and no Ending Balance exceeds that of the row before it, also when
\* loanAmount <= 0.
C3_BalanceNeverNegativeNorIncreasing ==
    /\ NonNegativeNonIncreasing(yearly)
    /\ NonNegativeNonIncreasing(monthly)

\* C4: for every valid input with T = effectiveTerm * 12 months the monthly
\* schedule has exactly min(12, T) + min(12, max(0, T - 12)) rows and no
\* month index occurs in two rows.
C4_MonthlyRowCount ==
    ( /\ "generate_monthly_schedule" \in returned
      /\ ValidLoanInput(inp)
      /\ EffectiveTerm(inp) >= 1 )
    => LET T == EffectiveTerm(inp) * 12
       IN  /\ Len(monthly) = Min(12, T) + Min(12, Max(0, T - 12))
           /\ \A i, j \in 1..Len(monthly) :
                  i # j => monthly[i].Month # monthly[j].Month

\* C5: each of the three functions resolves the override rate exactly when it
\* is supplied and > 0, else the base rate, and the override term exactly
\* when it is supplied and > 0, else the base term; the functions that
\* resolved agree on rate, term and P&I payment.
C5_OverridePrecedence ==
    \A f \in Functions :
        resolved[f] # None =>
            /\ resolved[f][1].rate
                   = PercentToDecimal(EffectiveRatePercent(inp))
            /\ resolved[f][1].term = EffectiveTerm(inp)
            /\ \A g \in Functions :
                   resolved[g] # None =>
                       resolved[g][1].payment = resolved[f][1].payment

\* all three functions have resolved, with an override rate of 0 and an
\* override term of 0 against a positive base rate and term
C5_Witness ==
    /\ \A f \in Functions : resolved[f] # None
    /\ inp.override_rate = Some(0) /\ inp.interest_rate > 0
    /\ inp.override_term = Some(0) /\ inp.loan_term_years > 0
    /\ resolved["generate_yearly_schedule"][1].rate
           = PercentToDecimal(inp.interest_rate)

\* C6: whenever the effective term is <= 0, for any rate >= 0,
\* calculate_mortgage reports an error and returns None.
C6_NonPositiveTermIsError ==
    ( /\ "calculate_mortgage" \in returned
      /\ EffectiveTerm(inp) <= 0
      /\ EffectiveRatePercent(inp) >= 0 )
    => /\ results = None
       /\ "calculate_mortgage" \in st_errors

\* C7: the schedule generators always return to the caller, and whenever
\* calculate_mortgage failed for the input, or a step of the generation
\* itself failed, the schedule returned is empty, never partially filled.
C7_FailureYieldsEmptySchedule ==
    /\ pc \in {"monthly_begin", "monthly_loop", "monthly_return", "done"}
           => "generate_yearly_schedule" \in returned
    /\ pc = "done" => "generate_monthly_schedule" \in returned
    /\ ( /\ "generate_yearly_schedule" \in returned
         /\ (results = None \/ "generate_yearly_schedule" \in st_errors) )
       => yearly = << >>
    /\ ( /\ "generate_monthly_schedule" \in returned
         /\ (results = None \/ "generate_monthly_schedule" \in st_errors) )
       => monthly = << >>

\* generate_yearly_schedule failed after it had built rows, and returned
\* none of them
C7_Witness ==
    /\ pc = "monthly_begin"
    /\ "generate_yearly_schedule" \in st_errors
    /\ results # None
    /\ Len(schedule_data) > 0
    /\ yearly = << >>

\* C8: after each row k of the yearly schedule, loanAmount minus the sum of
\* Principal over rows 1..k equals row k's Ending Balance (so at payoff the
\* Principal column sums to loanAmount), for every loan amount, also <= 0.
C8_PrincipalAccountsForBalance ==
    "generate_yearly_schedule" \in returned
    => \A k \in 1..Len(yearly) :
           LoanAmount(inp) - SumPrincipal(yearly, k) = yearly[k].EndingBalance

\* C9: for every input with loanAmount <= 0 and effective term >= 1,
\* calculate_mortgage reports no error and returns a summary with PMI Per
\* Month 0, Loan Amount the non-positive difference, and Total Monthly
\* Payment the sum of its five monthly components.
C9_DegenerateLoanIsNotAnError ==
    ( /\ "calculate_mortgage" \in returned
      /\ LoanAmount(inp) <= 0
      /\ EffectiveTerm(inp) >= 1 )
    => /\ results # None
       /\ "calculate_mortgage" \notin st_errors
       /\ results[1].PMIPerMonth = 0
       /\ results[1].LoanAmount = LoanAmount(inp)
       /\ results[1].TotalMonthlyPayment
              = results[1].MonthlyPaymentPI + results[1].PropertyTaxPerMonth
                + results[1].PMIPerMonth + results[1].HomeInsurancePerMonth
                + results[1].HOAFeePerMonth

\* C10: every row of the monthly schedule with month index m carries the
\* label of start_date advanced by exactly m - 1 calendar months.
C10_MonthLabels ==
    "generate_monthly_schedule" \in returned
    => \A i \in 1..Len(monthly) :
           monthly[i].Date
               = LabelAfterMonths(inp.start_date, monthly[i].Month - 1)

\* the balance the yearly schedule shows at the start of year k
OpeningBalance(rows, k) ==
    IF k = 1 THEN LoanAmount(inp) ELSE rows[k - 1].EndingBalance

\* C11: in the yearly schedule, once a row has Ending Balance 0 every later
\* row has Principal 0, Interest 0 and Ending Balance 0, and the row in which
\* a positive balance reaches 0 records only what was paid up to payoff: its
\* Principal is the balance that was still open at the start of that year.
C11_NoReopenAfterPayoff ==
    "generate_yearly_schedule" \in returned
    => \A k \in 1..Len(yearly) :
           yearly[k].EndingBalance = 0
           => /\ \A j \in (k + 1)..Len(yearly) :
                     /\ yearly[j].Principal = 0
                     /\ yearly[j].Interest = 0
                     /\ yearly[j].EndingBalance = 0
              /\ OpeningBalance(yearly, k) > 0
                     => /\ yearly[k].Principal = OpeningBalance(yearly, k)
                        /\ yearly[k].Interest >= 0

\* a yearly schedule whose balance is 0 before the last year, with the
\* zero-filled years after it
C11_Witness ==
    /\ "generate_yearly_schedule" \in returned
    /\ Len(yearly) >= 2
    /\ \E k \in 1..(Len(yearly) - 1) : yearly[k].EndingBalance = 0

ZeroRow(row) ==
    row.Principal = 0 /\ row.Interest = 0 /\ row.EndingBalance = 0

\* C12: generate_monthly_schedule stops at payoff: the loop does not run
\* another month once the running balance has reached 0, in a displayed or
\* in a skipped month, so no row follows a row whose Ending Balance is 0 and
\* the schedule never ends with a row of Principal 0, Interest 0 and Ending
\* Balance 0.
C12_MonthlyStopsAtPayoff ==
    /\ (pc = "monthly_loop" /\ period > 1) => balance > 0
    /\ "generate_monthly_schedule" \in returned
       => /\ \A i \in 1..(Len(monthly) - 1) : monthly[i].EndingBalance > 0
          /\ Len(monthly) >= 1 => ~ZeroRow(monthly[Len(monthly)])

\* C13: for the same input with loanAmount > 0, every row the monthly
\* schedule has for a month m = 12 * k carries the Ending Balance of row k of
\* the yearly schedule, also after months that were skipped from the output.
C13_SchedulesAgreeOnBalance ==
    ( /\ "generate_yearly_schedule" \in returned
      /\ "generate_monthly_schedule" \in returned
      /\ LoanAmount(inp) > 0 )
    => \A i \in 1..Len(monthly) :
           monthly[i].Month % 12 = 0
           => LET k == monthly[i].Month \div 12
              IN  /\ k <= Len(yearly)
                  /\ yearly[k].EndingBalance = monthly[i].EndingBalance

\* both schedules returned for an interest-bearing loan of more than 24
\* months: the final month is displayed after skipped months and matches the
\* final year, and month 12 matches year 1
C13_Witness ==
    /\ "generate_yearly_schedule" \in returned
    /\ "generate_monthly_schedule" \in returned
    /\ LoanAmount(inp) > 0
    /\ EffectiveRatePercent(inp) > 0
    /\ EffectiveTerm(inp) >= 3
    /\ Len(monthly) = 24
    /\ monthly[12].Month = 12
    /\ monthly[12].EndingBalance = yearly[1].EndingBalance
    /\ monthly[24].Month = EffectiveTerm(inp) * 12
    /\ monthly[24].EndingBalance = yearly[EffectiveTerm(inp)].EndingBalance

====
